---- MODULE Spec2Model ----
(***************************************************************************)
(* iq-squelch (ZMQ multi-stream revision): the run loop of                 *)
(* src/iq-squelch.c as a state machine.  One frame is received from the    *)
(* SUB socket per outer-loop iteration, reshaped into a                    *)
(* NUM_ZMQ_STREAMS x n matrix, cut into blocks of options.block_size       *)
(* samples, each block classified on channel 0 and published (all          *)
(* channels) when it is over the block threshold.                          *)
(***************************************************************************)
EXTENDS Integers, Sequences, FiniteSets, TLC

VARIABLES
    options,        \* the options struct (lines 55-72), fixed during run()
    feed,           \* which publisher is connected to the SUB socket
    stop_program,   \* line 43
    pc,             \* position of run(): "loop", "recv", "blocks", "done"
    zdata,          \* the frame being processed (line 189)
    n,              \* samples per channel still to process (line 168)
    elements_done,  \* line 217
    acc, avg, count, event_count,   \* line 164
    block_threshold, position,      \* line 165
    triggered,      \* line 167
    pub,            \* frames sent on the PUB socket, oldest first
    unreleased,     \* zframe_t objects received and not yet destroyed
    recvd,          \* history: frames received so far, oldest first
    blocks          \* history: blocks classified so far, oldest first

vars == <<options, feed, stop_program, pc, zdata, n, elements_done, acc, avg,
          count, event_count, block_threshold, position, triggered, pub,
          unreleased, recvd, blocks>>

-----------------------------------------------------------------------------
(* Bounds of the model *)

MaxBlockSize == 2     \* largest block_size of the general configurations
MaxSamples == 5       \* samples per channel the general feed sends in a run
MaxFrames == 2        \* frames received in one run

(* Program constants *)

NUM_ZMQ_STREAMS == 4
INT8_MAX == 127
UINT8_RANGE == 256
UINT16_RANGE == 65536
NEUTRAL_SAMPLE == 32639     \* 0x7F7F

NoFrame == [size |-> 0 - 1, loud |-> {}, quiet |-> "flat", others |-> "index"]

Abs(x) == IF x < 0 THEN 0 - x ELSE x

-----------------------------------------------------------------------------
(* Input frames.  A frame is size bytes of little-endian unsigned shorts,   *)
(* one short (I in the low byte, Q in the high byte) per channel per        *)
(* sample.  loud is a set of ranges <<first, last>> of sample indices at    *)
(* which channel 0 carries a strong sample (magnitude 50); its other        *)
(* samples have magnitude 5 when quiet is "flat", and alternately 5 and 10  *)
(* when it is "ripple"; a "probe" frame carries the sample (i, q) instead.  *)
(* The other channels carry values that identify their channel and sample   *)
(* index when others is "index", and the centre value when it is "calm".    *)

Short(i, q) == i + UINT8_RANGE * q

QuietSample == Short(INT8_MAX + 5, INT8_MAX)
RippleSample == Short(INT8_MAX - 4, INT8_MAX + 6)
LoudSample == Short(INT8_MAX + 50, INT8_MAX)

Strong(f, t) == \E r \in f.loud : r[1] <= t /\ t <= r[2]

Points(l) == { <<t, t>> : t \in l }

Wire(f, idx) ==
    LET k == idx % NUM_ZMQ_STREAMS
        t == idx \div NUM_ZMQ_STREAMS
    IN IF k = 0
       THEN IF f.quiet = "probe" THEN Short(f.i, f.q)
            ELSE IF Strong(f, t) THEN LoudSample
            ELSE IF f.quiet = "ripple" /\ t % 2 = 1 THEN RippleSample
            ELSE QuietSample
       ELSE IF f.others = "calm" THEN Short(INT8_MAX, INT8_MAX)
       ELSE Short((16 * k + t) % UINT8_RANGE, k)

(* The general feed: a publisher that sends at most MaxSamples samples per   *)
(* channel in a run, cut into frames in any way, and frames of four stray   *)
(* bytes, alone or after one whole sample.  sofar is the number of samples  *)
(* per channel already sent.                                                *)
GeneralFrames(sofar) ==
    { [size |-> 2 * NUM_ZMQ_STREAMS * mxl[1] + mxl[2], loud |-> Points(mxl[3]),
       quiet |-> "ripple", others |-> "index"] :
        mxl \in { mxl \in (0..(MaxSamples - sofar)) \X {0, 4} \X SUBSET (0..(MaxSamples - sofar - 1)) :
                     /\ mxl[3] \subseteq 0..(mxl[1] - 1)
                     /\ (mxl[2] = 0 /\ mxl[1] > 0) \/ (mxl[2] > 0 /\ mxl[1] <= 1) } }

(* The scenario feed: frames of one to three blocks of four samples, each   *)
(* block quiet, or with its first two or first three samples strong.        *)
ScenarioBlockSize == 2 * 2
ScenarioPatterns == { {}, {0, 1}, {0, 1, 2} }

ScenarioLoud(ps) ==
    UNION { { (j - 1) * ScenarioBlockSize + t : t \in ps[j] } : j \in DOMAIN ps }

ScenarioFrames ==
    { [size |-> 2 * NUM_ZMQ_STREAMS * ScenarioBlockSize * Len(ps),
       loud |-> Points(ScenarioLoud(ps)), quiet |-> "flat", others |-> "index"] :
        ps \in UNION { [1..m -> ScenarioPatterns] : m \in 1..3 } }

(* The wide feed: frames of one block and a stray sample, or of two blocks,  *)
(* of a block size at which block_size * NUM_ZMQ_STREAMS no longer fits 16  *)
(* bits.                                                                    *)
WideBlockSize == UINT16_RANGE \div NUM_ZMQ_STREAMS
WideBlockSizes == { WideBlockSize, WideBlockSize + 1 }

WideFrames ==
    { [size |-> 2 * NUM_ZMQ_STREAMS * (WideBlockSize + 1), loud |-> {}, quiet |-> "flat",
       others |-> "index"],
      [size |-> 2 * NUM_ZMQ_STREAMS * (WideBlockSize + 1), loud |-> { <<0, WideBlockSize>> },
       quiet |-> "flat", others |-> "index"],
      [size |-> 2 * NUM_ZMQ_STREAMS * (2 * WideBlockSize + 2), loud |-> { <<0, WideBlockSize - 1>> },
       quiet |-> "flat", others |-> "index"] }

(* The channels feed: the general feed, each frame with either filling of   *)
(* the channels other than the reference channel.                           *)
ChannelFrames(sofar) ==
    { [f EXCEPT !.others = x] : <<f, x>> \in GeneralFrames(sofar) \X {"index", "calm"} }

(* The probe feed: one frame of one sample per channel, the reference       *)
(* channel's sample being any pair of bytes.                                *)
ProbeFrames(sofar) ==
    IF sofar > 0 THEN {}
    ELSE { [size |-> 2 * NUM_ZMQ_STREAMS, loud |-> {}, quiet |-> "probe",
            others |-> "index", i |-> iq[1], q |-> iq[2]] :
             iq \in (0..(UINT8_RANGE - 1)) \X (0..(UINT8_RANGE - 1)) }

Frames(fd, sofar) ==
    CASE fd = "general" -> GeneralFrames(sofar)
      [] fd = "scenario" -> ScenarioFrames
      [] fd = "wide" -> WideFrames
      [] fd = "channels" -> ChannelFrames(sofar)
      [] fd = "probe" -> ProbeFrames(sofar)

-----------------------------------------------------------------------------
(* GSL views of the frame (lines 193-199, 210, 223-224)                     *)

\* the sample count rounded up instead of down
MutFrameSamples(f) == (f.size + 2 * NUM_ZMQ_STREAMS - 1) \div (2 * NUM_ZMQ_STREAMS)

\* n = zframe_size(zdata) / (2 * NUM_ZMQ_STREAMS)
FrameSamples(f) == f.size \div (2 * NUM_ZMQ_STREAMS)

\* gsl_matrix_ushort_view_array(base, n, NUM_ZMQ_STREAMS): element (i, j)
ViewArray(f, i, j) == Wire(f, i * NUM_ZMQ_STREAMS + j)

\* full_data after gsl_matrix_ushort_transpose_memcpy: element (r, c)
FullData(f, r, c) == ViewArray(f, c, r)

\* the scan reads row 1 of the matrix
MutCh1(f, t) == FullData(f, 1, t)

\* ch0 = row 0 of full_data; data = its subvector at elements_done
Ch0(f, t) == FullData(f, 0, t)
Data(f, ed, i) == Ch0(f, ed + i)

\* all_channels = submatrix(full_data, 0, elements_done, NUM_ZMQ_STREAMS, block_size)
AllChannels(f, ed, bs) ==
    [size1 |-> NUM_ZMQ_STREAMS, size2 |-> bs,
     at |-> [rc \in (0..(NUM_ZMQ_STREAMS - 1)) \X (0..(bs - 1)) |-> FullData(f, rc[1], ed + rc[2])]]

\* neutralvec = block_size x NUM_ZMQ_STREAMS matrix set to 0x7F7F
NeutralVec(bs) ==
    [size1 |-> bs, size2 |-> NUM_ZMQ_STREAMS,
     at |-> [rc \in (0..(bs - 1)) \X (0..(NUM_ZMQ_STREAMS - 1)) |-> NEUTRAL_SAMPLE]]

-----------------------------------------------------------------------------
(* Emission (lines 101-131)                                                 *)

\* emit_data: num_elements is a uint16_t parameter; the frame sent holds
\* num_elements * size_of_element bytes, i.e. the first num_elements shorts
EmitData(bufAt, num_elements) ==
    LET sent == num_elements % UINT16_RANGE
    IN [i \in 1..sent |-> bufAt[i - 1]]

\* buf[r * columns + c] = m(r, c)
RowMajorBuf(m) ==
    [i \in 0..(m.size1 * m.size2 - 1) |-> m.at[<<i \div m.size2, i % m.size2>>]]

\* buf[c * rows + r] = m(r, c)
ColumnMajorBuf(m) ==
    [i \in 0..(m.size1 * m.size2 - 1) |-> m.at[<<i % m.size1, i \div m.size1>>]]

GslMatEmitData(m, order) ==
    EmitData(IF order = "ROW_MAJOR" THEN RowMajorBuf(m) ELSE ColumnMajorBuf(m),
             m.size1 * m.size2)

-----------------------------------------------------------------------------
(* Classification of one block (lines 228-242)                              *)

\* mag = (uint8_t)(abs((sample & 0xFF) - INT8_MAX) + abs((sample >> 8) - INT8_MAX))
Mag(sample) ==
    (Abs((sample % UINT8_RANGE) - INT8_MAX) + Abs((sample \div UINT8_RANGE) - INT8_MAX))
        % UINT8_RANGE

OverSample(mag, sample_threshold) == mag > sample_threshold

\* the for loop over samples lo..hi of the block: count and acc
RECURSIVE ScanBlock(_, _, _, _, _)
ScanBlock(f, ed, lo, hi, sample_threshold) ==
    IF lo > hi THEN [count |-> 0, acc |-> 0]
    ELSE IF lo = hi
    THEN LET mag == Mag(Data(f, ed, lo))
         IN [count |-> IF OverSample(mag, sample_threshold) THEN 1 ELSE 0, acc |-> mag]
    ELSE LET mid == (lo + hi) \div 2
             a == ScanBlock(f, ed, lo, mid, sample_threshold)
             b == ScanBlock(f, ed, mid + 1, hi, sample_threshold)
         IN [count |-> a.count + b.count, acc |-> a.acc + b.acc]

\* the percentage applied as block_size / 100 * pct
MutBlockThreshold(block_size, pct) == (block_size \div 100) * pct

\* block_threshold = options.block_size * options.block_threshold / 100
BlockThreshold(block_size, pct) == (block_size * pct) \div 100

\* the block test with >= for >
MutOverBlock(cnt, threshold) == cnt >= threshold

\* if (count > block_threshold)
OverBlock(cnt, threshold) == cnt > threshold

-----------------------------------------------------------------------------
(* Configurations: the options struct as run() finds it.  run() receives    *)
(* from the SUB socket unconditionally, so zmq_enabled is set and offset is *)
(* 0 (a non-zero offset seeks in the input file, which ZMQ mode leaves      *)
(* unopened).                                                               *)

Percents == {0, 50, 100}
SampleThresholds == {10}

OptionsOver(sizes, pcts, thresholds) ==
    [auto_mode : BOOLEAN, block_size : sizes, block_threshold : pcts,
     offset : {0}, padding_blocks : BOOLEAN, sample_threshold : thresholds,
     verbose : BOOLEAN, zmq_enabled : {TRUE}, send_nullvec : BOOLEAN]

GeneralOptions ==
    { o \in OptionsOver(1..MaxBlockSize, Percents, SampleThresholds) :
        ~o.auto_mode /\ ~o.verbose }

ScenarioOptions ==
    { o \in OptionsOver({ScenarioBlockSize}, {50}, {10}) : ~o.auto_mode /\ ~o.verbose }

\* the default configuration with the noise-floor average and the
\* diagnostics switched on or off
DiagOptions ==
    { o \in OptionsOver(1..MaxBlockSize, {50}, SampleThresholds) :
        o.padding_blocks /\ ~o.send_nullvec }

WideOptions ==
    { o \in OptionsOver(WideBlockSizes, {50}, {10}) :
        ~o.auto_mode /\ ~o.verbose /\ o.padding_blocks }

\* the default configuration, for the runs in which the other channels vary
\* and for the runs under fair scheduling
PlainOptions ==
    { o \in DiagOptions : ~o.auto_mode /\ ~o.verbose }

\* one sample per block, so that a block's sum is its sample's magnitude
ProbeOptions ==
    { o \in OptionsOver({1}, {0}, SampleThresholds) :
        ~o.auto_mode /\ ~o.verbose /\ o.padding_blocks }

\* -b accepts every number strtoul() reads, 0 included (lines 352-354)
ZeroOptions ==
    { o \in OptionsOver(0..MaxBlockSize, {50}, SampleThresholds) :
        ~o.auto_mode /\ ~o.verbose /\ o.padding_blocks }

-----------------------------------------------------------------------------
(* run(): lines 161-325                                                      *)

\* lines 176-183, up to the first test of the outer loop
InitRun(opts, fd) ==
    /\ options \in opts
    /\ feed = fd
    /\ stop_program = FALSE
    /\ pc = "loop"
    /\ zdata = NoFrame
    /\ n = 0
    /\ elements_done = 0
    /\ acc = 0
    /\ avg = 0
    /\ count = 0
    /\ event_count = 0
    /\ block_threshold = BlockThreshold(options.block_size, options.block_threshold)
    /\ position = options.offset
    /\ triggered = FALSE
    /\ pub = <<>>
    /\ unreleased = 0
    /\ recvd = <<>>
    /\ blocks = <<>>

Init == InitRun(GeneralOptions, "general")
InitDiag == InitRun(DiagOptions, "general")
InitScenario == InitRun(ScenarioOptions, "scenario")
InitWide == InitRun(WideOptions, "wide")
InitChannels == InitRun(PlainOptions, "channels")
InitProbe == InitRun(ProbeOptions, "probe")
InitZero == InitRun(ZeroOptions, "general")
InitLive == InitRun(PlainOptions, "general")

\* lines 45-48: SIGINT
HandleInterrupt ==
    /\ pc # "done"
    /\ ~stop_program
    /\ stop_program' = TRUE
    /\ UNCHANGED <<options, feed, pc, zdata, n, elements_done, acc, avg, count,
                   event_count, block_threshold, position, triggered, pub,
                   unreleased, recvd, blocks>>

\* line 190: while (! stop_program); lines 317-320 when the loop ends
LoopTest ==
    /\ pc = "loop"
    /\ pc' = IF stop_program THEN "done" ELSE "recv"
    /\ UNCHANGED <<options, feed, stop_program, zdata, n, elements_done, acc,
                   avg, count, event_count, block_threshold, position,
                   triggered, pub, unreleased, recvd, blocks>>

\* samples per channel in the frames of fs
RECURSIVE SamplesIn(_)
SamplesIn(fs) ==
    IF fs = << >> THEN 0 ELSE FrameSamples(Head(fs)) + SamplesIn(Tail(fs))

\* lines 192-217: a frame arrives; with n == 0 the iteration ends at continue
RecvFrame ==
    /\ pc = "recv"
    /\ Len(recvd) < MaxFrames
    /\ \E f \in Frames(feed, SamplesIn(recvd)) :
        /\ zdata' = f
        /\ unreleased' = unreleased + 1
        /\ recvd' = Append(recvd, f)
        /\ n' = FrameSamples(f)
        /\ IF FrameSamples(f) = 0
           THEN pc' = "loop" /\ UNCHANGED elements_done
           ELSE pc' = "blocks" /\ elements_done' = 0
    /\ UNCHANGED <<options, feed, stop_program, acc, avg, count, event_count,
                   block_threshold, position, triggered, pub, blocks>>

\* the block after an event is sent as well, whatever padding_blocks says
MutPublishedTrailOut(f, ed, o, active) ==
    IF active \/ triggered
    THEN << [kind |-> "data", frame |-> Len(recvd), start |-> ed,
             data |-> GslMatEmitData(AllChannels(f, ed, o.block_size), "COLUMN_MAJOR")] >>
    ELSE << >>

\* nothing is sent once the interrupt flag is up
MutPublishedUnlessStopped(f, ed, o, active) ==
    IF active /\ ~stop_program
    THEN << [kind |-> "data", frame |-> Len(recvd), start |-> ed,
             data |-> GslMatEmitData(AllChannels(f, ed, o.block_size), "COLUMN_MAJOR")] >>
    ELSE IF o.send_nullvec
    THEN << [kind |-> "neutral", frame |-> Len(recvd), start |-> ed,
             data |-> GslMatEmitData(NeutralVec(o.block_size), "ROW_MAJOR")] >>
    ELSE << >>

\* what the PUB socket gets for one classified block (lines 262, 273-277)
Published(f, ed, o, active) ==
    IF active
    THEN << [kind |-> "data", frame |-> Len(recvd), start |-> ed,
             data |-> GslMatEmitData(AllChannels(f, ed, o.block_size), "COLUMN_MAJOR")] >>
    ELSE IF o.send_nullvec
    THEN << [kind |-> "neutral", frame |-> Len(recvd), start |-> ed,
             data |-> GslMatEmitData(NeutralVec(o.block_size), "ROW_MAJOR")] >>
    ELSE << >>

\* every active block counts as an event
MutDecideCountsBlocks(scan) ==
    LET bs == options.block_size
        ed == elements_done
        active == OverBlock(scan.count, block_threshold)
    IN /\ acc' = scan.acc
       /\ count' = scan.count
       /\ event_count' = IF active /\ options.verbose
                         THEN event_count + 1 ELSE event_count
       /\ pub' = pub \o Published(zdata, ed, options, active)
       /\ avg' = IF ~active /\ options.auto_mode
                 THEN (avg + scan.acc \div bs) \div 2 ELSE avg
       /\ triggered' = active
       /\ position' = position + n' * 2
       /\ blocks' = Append(blocks, [frame |-> Len(recvd), start |-> ed,
                                    active |-> active, before |-> triggered])

\* the average is left alone by the inactive block that ends an event
MutDecideIdleOnly(scan) ==
    LET bs == options.block_size
        ed == elements_done
        active == OverBlock(scan.count, block_threshold)
    IN /\ acc' = scan.acc
       /\ count' = scan.count
       /\ event_count' = IF active /\ options.verbose /\ ~triggered
                         THEN event_count + 1 ELSE event_count
       /\ pub' = pub \o Published(zdata, ed, options, active)
       /\ avg' = IF ~active /\ ~triggered /\ options.auto_mode
                 THEN (avg + scan.acc \div bs) \div 2 ELSE avg
       /\ triggered' = active
       /\ position' = position + n' * 2
       /\ blocks' = Append(blocks, [frame |-> Len(recvd), start |-> ed,
                                    active |-> active, before |-> triggered])

\* lines 241-310: the verdict on a scanned block and what follows from it
Decide(scan) ==
    LET bs == options.block_size
        ed == elements_done
        active == OverBlock(scan.count, block_threshold)
    IN /\ acc' = scan.acc
       /\ count' = scan.count
       /\ event_count' = IF active /\ options.verbose /\ ~triggered
                         THEN event_count + 1 ELSE event_count
       /\ pub' = pub \o Published(zdata, ed, options, active)
       /\ avg' = IF ~active /\ options.auto_mode
                 THEN (avg + scan.acc \div bs) \div 2 ELSE avg
       /\ triggered' = active
       /\ position' = position + n' * 2
       /\ blocks' = Append(blocks, [frame |-> Len(recvd), start |-> ed,
                                    active |-> active, before |-> triggered])

\* the block loop gives up once the interrupt flag is up
MutMoreBlocksUnlessStopped(left, block_size) == left >= block_size /\ ~stop_program

\* the loop test with > for >=
MutMoreBlocks(left, block_size) == left > block_size

\* line 219: while (n >= options.block_size)
MoreBlocks(left, block_size) == left >= block_size

\* iterations of the block loop on the frame being processed
Iterations == Cardinality({ i \in DOMAIN blocks : blocks[i].frame = Len(recvd) })

\* lines 219-311: one iteration of the block loop; the loop is followed for
\* one iteration more than the frame has samples per channel
ProcessBlock ==
    /\ pc = "blocks"
    /\ MoreBlocks(n, options.block_size)
    /\ Iterations <= FrameSamples(zdata)
    /\ elements_done' = elements_done + options.block_size
    /\ n' = n - options.block_size
    /\ \E scan \in { ScanBlock(zdata, elements_done, 0, options.block_size - 1,
                                options.sample_threshold) } : Decide(scan)
    /\ UNCHANGED <<options, feed, stop_program, pc, zdata, block_threshold,
                   unreleased, recvd>>

\* the trigger state is reset when a frame is done
MutEndFrame ==
    /\ pc = "blocks"
    /\ ~MoreBlocks(n, options.block_size)
    /\ pc' = "loop"
    /\ zdata' = NoFrame
    /\ unreleased' = unreleased - 1
    /\ triggered' = FALSE
    /\ UNCHANGED <<options, feed, stop_program, n, elements_done, acc, avg,
                   count, event_count, block_threshold, position, pub, recvd,
                   blocks>>

\* lines 312-315: fewer than block_size samples left; the frame is destroyed
EndFrame ==
    /\ pc = "blocks"
    /\ ~MoreBlocks(n, options.block_size)
    /\ pc' = "loop"
    /\ zdata' = NoFrame
    /\ unreleased' = unreleased - 1
    /\ UNCHANGED <<options, feed, stop_program, n, elements_done, acc, avg,
                   count, event_count, block_threshold, position, triggered,
                   pub, recvd, blocks>>

Next ==
    \/ HandleInterrupt
    \/ LoopTest
    \/ RecvFrame
    \/ ProcessBlock
    \/ EndFrame

Spec == Init /\ [][Next]_vars
SpecDiag == InitDiag /\ [][Next]_vars
SpecScenario == InitScenario /\ [][Next]_vars
SpecWide == InitWide /\ [][Next]_vars
SpecChannels == InitChannels /\ [][Next]_vars
SpecProbe == InitProbe /\ [][Next]_vars
SpecZero == InitZero /\ [][Next]_vars

(* run() is one thread: whenever its next step can be taken it is taken.    *)
(* The receive is a step only while a frame is still to arrive; the signal  *)
(* may never come.                                                          *)
SpecLive ==
    /\ InitLive /\ [][Next]_vars
    /\ WF_vars(LoopTest) /\ WF_vars(RecvFrame)
    /\ WF_vars(ProcessBlock) /\ WF_vars(EndFrame)

-----------------------------------------------------------------------------
(* Vocabulary of the properties, stated on the wire bytes of the frames     *)
(* received and on the frames published.                                    *)

\* sample t of channel k of frame f, read off the wire
ChannelSample(f, k, t) == Wire(f, t * NUM_ZMQ_STREAMS + k)

\* the frame a classified block or a published frame comes from
FrameOf(x) == recvd[x.frame]

\* samples of the reference channel in block b that are over the sample threshold
CountOver(b) ==
    Cardinality({ t \in 0..(options.block_size - 1) :
                    Mag(ChannelSample(FrameOf(b), 0, b.start + t)) > options.sample_threshold })

\* published frame e is the data of classified block b
IsBlock(e, b) == e.kind = "data" /\ e.frame = b.frame /\ e.start = b.start

\* published frame e equals the wire region of the block it was sent for
SameAsSource(e) ==
    /\ Len(e.data) = options.block_size * NUM_ZMQ_STREAMS
    /\ \A i \in 1..Len(e.data) :
         e.data[i] = Wire(FrameOf(e), e.start * NUM_ZMQ_STREAMS + i - 1)

\* the blocks classified so far are: first..last active, all others inactive
ActiveRun(first, last) ==
    /\ 1 < first /\ first <= last /\ last < Len(blocks)
    /\ \A i \in 1..Len(blocks) : blocks[i].active <=> (first <= i /\ i <= last)

-----------------------------------------------------------------------------
C2_PaddedRunEmitsLeadInAndTrailOut ==
    (/\ options.padding_blocks
     /\ ~options.send_nullvec
     /\ ActiveRun(2, Len(blocks) - 1))
    => /\ Len(pub) = Len(blocks)
       /\ \A i \in 1..Len(pub) : IsBlock(pub[i], blocks[i]) /\ SameAsSource(pub[i])

(* C3: with padding off and the neutral-block option off, K >= 1 active     *)
(* blocks surrounded by inactive blocks give exactly K published frames,    *)
(* those of the K active blocks in order, and none for an inactive block.   *)
C3_UnpaddedRunEmitsActiveBlocksOnly ==
    \A first, last \in 1..Len(blocks) :
        (/\ ~options.padding_blocks
         /\ ~options.send_nullvec
         /\ ActiveRun(first, last))
        => /\ Len(pub) = last - first + 1
           /\ \A i \in 1..Len(pub) : IsBlock(pub[i], blocks[first + i - 1])

\* inactive, two active blocks, inactive, with padding off: two frames are out
C3_Witness ==
    /\ ~options.padding_blocks
    /\ ~options.send_nullvec
    /\ Len(blocks) = 4
    /\ ActiveRun(2, 3)
    /\ Len(pub) = 2

(* C4 as stated: with block_size 4, sample_threshold 10, block_threshold 50 *)
(* and magnitudes [5,5,5,5 | 50,50,5,5 | 5,5,5,5], block 2 is active; with  *)
(* padding the frames published are blocks 1, 2, 3, without it block 2.     *)
BlockMags(b) ==
    [t \in 1..options.block_size |-> Mag(ChannelSample(FrameOf(b), 0, b.start + t - 1))]

ScenarioInput ==
    /\ options.block_size = 4
    /\ options.sample_threshold = 10
    /\ options.block_threshold = 50
    /\ Len(blocks) = 3
    /\ BlockMags(blocks[1]) = <<5, 5, 5, 5>>
    /\ BlockMags(blocks[2]) = <<50, 50, 5, 5>>
    /\ BlockMags(blocks[3]) = <<5, 5, 5, 5>>

C4_ScenarioAsStated ==
    (ScenarioInput /\ ~options.send_nullvec)
    => /\ blocks[2].active
       /\ IF options.padding_blocks
          THEN Len(pub) = 3 /\ \A i \in 1..3 : IsBlock(pub[i], blocks[i])
          ELSE Len(pub) = 1 /\ IsBlock(pub[1], blocks[2])

(* C4 amended: in that scenario block 2 has exactly 2 samples over the      *)
(* sample threshold, which is not more than floor(4 * 50 / 100) = 2, so     *)
(* block 2 is inactive like blocks 1 and 3 and no data frame is published,  *)
(* with padding on or off.                                                  *)
C4_ScenarioEmitsNothing ==
    ScenarioInput
    => /\ CountOver(blocks[2]) = 2
       /\ \A i \in 1..3 : ~blocks[i].active
       /\ \A i \in 1..Len(pub) : pub[i].kind # "data"

\* the three blocks of the scenario have been classified, with padding on
C4_Witness == ScenarioInput /\ options.padding_blocks /\ ~options.send_nullvec /\ pub = <<>>

(* C5: every published data frame holds, for every channel k, the samples   *)
(* of channel k at the sample offsets of its block, interleaved as on the   *)
(* wire: it equals the block's contiguous region of the input frame.        *)
C5_BlockAlignedAllChannels ==
    \A i \in 1..Len(pub) :
        pub[i].kind = "data"
        => /\ Len(pub[i].data) = options.block_size * NUM_ZMQ_STREAMS
           /\ \A t \in 0..(options.block_size - 1) : \A k \in 0..(NUM_ZMQ_STREAMS - 1) :
                pub[i].data[t * NUM_ZMQ_STREAMS + k + 1]
                    = ChannelSample(FrameOf(pub[i]), k, pub[i].start + t)

(* C6: the frames published are a function of the configuration and of the *)
(* frames received, and of nothing else: whenever the run is between        *)
(* frames, what has been published is what that function gives.             *)
ExpectedLength(o) == (o.block_size * NUM_ZMQ_STREAMS) % UINT16_RANGE

ExpectedBlock(o, f, start) ==
    LET over == Cardinality({ t \in 0..(o.block_size - 1) :
                    Mag(ChannelSample(f, 0, start + t)) > o.sample_threshold })
    IN IF over > (o.block_size * o.block_threshold) \div 100
       THEN << [i \in 1..ExpectedLength(o) |-> Wire(f, start * NUM_ZMQ_STREAMS + i - 1)] >>
       ELSE IF o.send_nullvec
       THEN << [i \in 1..ExpectedLength(o) |-> NEUTRAL_SAMPLE] >>
       ELSE << >>

RECURSIVE ExpectedFrame(_, _, _)
ExpectedFrame(o, f, start) ==
    IF f.size \div (2 * NUM_ZMQ_STREAMS) - start < o.block_size
    THEN << >>
    ELSE ExpectedBlock(o, f, start) \o ExpectedFrame(o, f, start + o.block_size)

RECURSIVE ExpectedOutput(_, _)
ExpectedOutput(o, frames) ==
    IF frames = << >> THEN << >>
    ELSE ExpectedOutput(o, SubSeq(frames, 1, Len(frames) - 1))
            \o ExpectedFrame(o, frames[Len(frames)], 0)

C6_OutputDeterminedByInput ==
    pc # "blocks" => [i \in 1..Len(pub) |-> pub[i].data] = ExpectedOutput(options, recvd)

\* two frames have been received and worked off, an interrupt came in
\* between, and data was published from both
C6_Witness ==
    /\ pc = "done"
    /\ Len(recvd) = 2
    /\ \E i, j \in 1..Len(pub) :
         pub[i].kind = "data" /\ pub[i].frame = 1 /\ pub[j].kind = "data" /\ pub[j].frame = 2

(* C7: with the neutral-block option off, the frames published are an       *)
(* order-preserving subsequence of the input blocks: each is a copy of an   *)
(* input block, they appear in arrival order, and none appears twice.       *)
C7_OutputIsSubsequenceOfInput ==
    ~options.send_nullvec
    => /\ \A i \in 1..Len(pub) :
            /\ \E j \in 1..Len(blocks) : IsBlock(pub[i], blocks[j])
            /\ SameAsSource(pub[i])
       /\ \A i, j \in 1..Len(pub) :
            i < j => \/ pub[i].frame < pub[j].frame
                     \/ pub[i].frame = pub[j].frame /\ pub[i].start < pub[j].start

(* C8 as stated: a frame whose size is not a multiple of the stride of      *)
(* 2 bytes x NUM_ZMQ_STREAMS channels has no block classified and nothing   *)
(* published for it.                                                        *)
Stride == 2 * NUM_ZMQ_STREAMS

C8_OddSizedFrameSkipped ==
    /\ \A i \in 1..Len(blocks) : FrameOf(blocks[i]).size % Stride = 0
    /\ \A i \in 1..Len(pub) : FrameOf(pub[i]).size % Stride = 0

(* C8 amended: a frame shorter than the stride (fewer than 8 bytes, so that *)
(* floor(size / stride) = 0) is treated as holding zero usable samples: no  *)
(* block of it is classified, nothing is published for it, the trigger      *)
(* state is unchanged and the loop goes on with the next frame.  A longer   *)
(* frame whose size is not a multiple of the stride is processed as         *)
(* floor(size / stride) samples per channel, its stray bytes ignored.       *)
C8_ShortFrameSkipped ==
    /\ [](/\ \A i \in 1..Len(blocks) : FrameOf(blocks[i]).size >= Stride
          /\ \A i \in 1..Len(pub) : FrameOf(pub[i]).size >= Stride
          /\ \A k \in 1..Len(recvd) :
                (k < Len(recvd) \/ pc # "blocks")
                => Cardinality({ i \in 1..Len(blocks) : blocks[i].frame = k })
                      = (recvd[k].size \div Stride) \div options.block_size)
    /\ [][(Len(recvd') > Len(recvd) /\ recvd'[Len(recvd')].size < Stride)
          => /\ pc' = "loop"
             /\ triggered' = triggered
             /\ pub' = pub
             /\ blocks' = blocks]_vars

\* a frame of four bytes arrived during an event and was skipped, and a
\* frame of twelve bytes had its one sample classified
C8_Witness ==
    /\ Len(recvd) = 2
    /\ recvd[1].size = Stride + 4
    /\ recvd[2].size = 4
    /\ pc = "loop"
    /\ triggered
    /\ Len(blocks) = 1

(* C9: of a frame of n samples per channel exactly floor(n / block_size)    *)
(* blocks are classified, block j at samples j * block_size onwards; the    *)
(* n mod block_size samples left are neither classified nor published nor   *)
(* carried over: the next frame's first block starts at its sample 0.       *)
BlocksOfFrame(k) == SelectSeq(blocks, LAMBDA b : b.frame = k)

C9_WholeBlocksOnlyTailDropped ==
    /\ \A k \in 1..Len(recvd) :
         LET bk == BlocksOfFrame(k)
             nk == recvd[k].size \div Stride
         IN /\ \A j \in 1..Len(bk) : bk[j].start = (j - 1) * options.block_size
            /\ Len(bk) <= nk \div options.block_size
            /\ (k < Len(recvd) \/ pc # "blocks") => Len(bk) = nk \div options.block_size
    /\ \A i \in 1..Len(blocks) : \A j \in 1..Len(blocks) :
         i < j => blocks[i].frame <= blocks[j].frame
    /\ \A i \in 1..Len(pub) : \E j \in 1..Len(blocks) :
         pub[i].frame = blocks[j].frame /\ pub[i].start = blocks[j].start

\* a frame with a tail shorter than a block was worked off and the next
\* frame had its first block classified
C9_Witness ==
    /\ Len(recvd) = 2
    /\ options.block_size > 1
    /\ (recvd[1].size \div Stride) % options.block_size # 0
    /\ Len(BlocksOfFrame(1)) >= 1
    /\ Len(BlocksOfFrame(2)) >= 1

(* C10: every published frame is exactly block_size x 2 bytes x             *)
(* NUM_ZMQ_STREAMS channels long, also when block_size x NUM_ZMQ_STREAMS is *)
(* 65536 or more.                                                           *)
C10_PublishedFrameLength ==
    \A i \in 1..Len(pub) :
        2 * Len(pub[i].data) = options.block_size * 2 * NUM_ZMQ_STREAMS

(* C11: with send_nullvec set, every classified block has exactly one       *)
(* published frame, in order: the block's data when it is active, otherwise *)
(* a frame of block_size x NUM_ZMQ_STREAMS samples that are all 0x7F7F; so  *)
(* as many frames are published as blocks are classified.                   *)
C11_NeutralBlockKeepsCadence ==
    options.send_nullvec
    => /\ Len(pub) = Len(blocks)
       /\ \A i \in 1..Len(blocks) :
            IF blocks[i].active
            THEN IsBlock(pub[i], blocks[i]) /\ SameAsSource(pub[i])
            ELSE /\ pub[i].kind = "neutral"
                 /\ Len(pub[i].data) = options.block_size * NUM_ZMQ_STREAMS
                 /\ \A j \in 1..Len(pub[i].data) : pub[i].data[j] = NEUTRAL_SAMPLE

\* |I - bias| + |Q - bias| of the reference-channel sample of a probe frame
ProbeMagnitude(f) == Abs(f.i - INT8_MAX) + Abs(f.q - INT8_MAX)

(* C12: for every sample (I, Q) with I and Q in 0..255, the magnitude that  *)
(* is compared against sample_threshold and added to the block's sum is     *)
(* |I - 127| + |Q - 127|, a value that fits in 8 bits.  Checked on blocks   *)
(* of one sample, whose sum acc and count are those of the sample.          *)
C12_MagnitudeFitsInByte ==
    (pc = "blocks" /\ elements_done = 1)
    => /\ ProbeMagnitude(zdata) < UINT8_RANGE
       /\ acc = ProbeMagnitude(zdata)
       /\ count = (IF ProbeMagnitude(zdata) > options.sample_threshold THEN 1 ELSE 0)

\* blocked in the receive with no frame left to arrive
AwaitingFrame == pc = "recv" /\ ~ENABLED RecvFrame

(* C13: stop_program is looked at only by the test of the outer loop.  Once *)
(* it is set: with the run at that test the loop ends; no frame is received *)
(* at or after that test; while full blocks of the frame in hand remain,    *)
(* the next step classifies the next one by the usual rule; and the run     *)
(* ends, unless it stays blocked in a receive that never returns.           *)
C13_StopFlagEndsRunBetweenFrames ==
    /\ [][(stop_program /\ pc = "loop") => pc' = "done"]_vars
    /\ [][pc' = "done" => (pc = "done" \/ (pc = "loop" /\ stop_program))]_vars
    /\ [][(stop_program /\ pc \in {"loop", "done"}) => recvd' = recvd]_vars
    /\ [][(stop_program /\ pc = "blocks" /\ n >= options.block_size)
            => /\ Len(blocks') = Len(blocks) + 1
               /\ blocks'[Len(blocks')].frame = Len(recvd)
               /\ blocks'[Len(blocks')].start = elements_done
               /\ blocks'[Len(blocks')].active
                    <=> (Cardinality({ t \in 0..(options.block_size - 1) :
                            Mag(ChannelSample(zdata, 0, elements_done + t))
                                > options.sample_threshold })
                          > (options.block_size * options.block_threshold) \div 100)
               /\ pc' = "blocks"]_vars
    /\ (stop_program ~> (pc = "done" \/ AwaitingFrame))

\* the flag is up in the middle of a frame: a block done, a full block left
C13_Witness ==
    /\ stop_program
    /\ pc = "blocks"
    /\ elements_done > 0
    /\ n >= options.block_size

(* C14: the trigger state is IDLE at the start and is, at every moment, the *)
(* verdict on the block classified last, whatever frames were received,     *)
(* skipped or cut short since; so every block is judged against the state   *)
(* its predecessor left, also when the predecessor is in an earlier frame.  *)
C14_TriggerFollowsLastVerdict ==
    /\ triggered = (blocks # <<>> /\ blocks[Len(blocks)].active)
    /\ \A i \in 1..Len(blocks) :
         blocks[i].before = (i > 1 /\ blocks[i - 1].active)

\* the first block of the second frame is judged in state ACTIVE, left by
\* the first frame, whose tail was discarded
C14_Witness ==
    /\ Len(recvd) = 2
    /\ FrameSamples(recvd[1]) % options.block_size # 0
    /\ \E i \in 2..Len(blocks) :
         /\ blocks[i].frame = 2 /\ blocks[i].start = 0 /\ blocks[i].before
         /\ blocks[i - 1].frame = 1

\* sum of the reference-channel magnitudes of len samples of frame f from start
RECURSIVE MagSum(_, _, _)
MagSum(f, start, len) ==
    IF len = 0 THEN 0
    ELSE Mag(ChannelSample(f, 0, start + len - 1)) + MagSum(f, start, len - 1)

\* this step classifies a block, and the block is inactive
InactiveBlockStep ==
    /\ Len(blocks') = Len(blocks) + 1
    /\ ~blocks'[Len(blocks')].active

\* (avg + mean) / 2, mean being the magnitude sum of the block at hand over
\* block_size
FoldedAverage ==
    (avg + MagSum(zdata, elements_done, options.block_size) \div options.block_size) \div 2

(* C15 as stated: in auto mode avg changes only at a block classified       *)
(* inactive while the trigger state is IDLE, where it becomes (avg + mean)  *)
(* / 2; active blocks and the inactive block that ends an event leave it    *)
(* unchanged; with auto mode off it never changes.                          *)
C15_FloorFoldsIdleInactiveOnly ==
    [][IF options.auto_mode /\ InactiveBlockStep /\ ~triggered
       THEN avg' = FoldedAverage
       ELSE avg' = avg]_vars

(* C15 amended: in auto mode avg becomes (avg + mean) / 2 at every block    *)
(* classified inactive, the one that ends an event included; active blocks  *)
(* leave it unchanged; with auto mode off it never changes.                 *)
C15_FloorFoldsEveryInactiveBlock ==
    [][IF options.auto_mode /\ InactiveBlockStep
       THEN avg' = FoldedAverage
       ELSE avg' = avg]_vars

\* an active block, then the inactive block that ends the event: only the
\* latter can have raised avg from 0
C15_Witness ==
    /\ options.auto_mode
    /\ Len(blocks) = 2
    /\ blocks[1].active /\ ~blocks[2].active /\ blocks[2].before
    /\ avg > 0

\* what two frames must share to agree on the reference channel and on size
Ch0View(f) ==
    [size |-> f.size,
     ch0 |-> [t \in 1..(f.size \div Stride) |-> ChannelSample(f, 0, t - 1)]]

\* the blocks, as <<frame, first sample>>, whose data has been published
EmittedIndices ==
    { <<pub[i].frame, pub[i].start>> : i \in { j \in 1..Len(pub) : pub[j].kind = "data" } }

\* the blocks that the reference-channel views make active under options o
ActiveIndices(o, views) ==
    { <<k, b * o.block_size>> :
        <<k, b>> \in { kb \in (1..Len(views)) \X (0..MaxSamples) :
            /\ (kb[2] + 1) * o.block_size <= Len(views[kb[1]].ch0)
            /\ Cardinality({ t \in 0..(o.block_size - 1) :
                   Mag(views[kb[1]].ch0[kb[2] * o.block_size + t + 1]) > o.sample_threshold })
                 > (o.block_size * o.block_threshold) \div 100 } }

(* C16: which blocks are emitted is a function of the configuration and of  *)
(* the reference channel's samples and the frame sizes alone: between       *)
(* frames, the emitted block indices are what that function gives, whatever *)
(* the other channels carry.                                                *)
C16_EmissionDependsOnReferenceChannelOnly ==
    pc \in {"loop", "recv", "done"}
    => /\ EmittedIndices = ActiveIndices(options, [k \in 1..Len(recvd) |-> Ch0View(recvd[k])])
       /\ Cardinality(EmittedIndices)
            = Cardinality({ j \in 1..Len(pub) : pub[j].kind = "data" })

\* two frames alike on the reference channel and in size, unlike on the
\* other channels, with the same blocks emitted from both
C16_Witness ==
    /\ pc = "loop"
    /\ Len(recvd) = 2
    /\ Ch0View(recvd[1]) = Ch0View(recvd[2])
    /\ recvd[1].others # recvd[2].others
    /\ \E st \in 0..MaxSamples : <<1, st>> \in EmittedIndices
    /\ \E st \in 0..MaxSamples : <<1, st>> \notin EmittedIndices /\ st < Len(Ch0View(recvd[1]).ch0)
    /\ \A st \in 0..MaxSamples : <<1, st>> \in EmittedIndices <=> <<2, st>> \in EmittedIndices

(* C17: position is the byte offset of the block to be classified next: the *)
(* starting offset plus the input bytes of all blocks classified so far (2  *)
(* bytes a sample, counted on the reference channel or on all channels),    *)
(* and it grows with every block classified.                                *)
C17_PositionIsByteOffsetOfBlock ==
    /\ [](\E unit \in {2, 2 * NUM_ZMQ_STREAMS} :
            position = options.offset + Len(blocks) * options.block_size * unit)
    /\ [][Len(blocks') > Len(blocks) => position' > position]_vars

(* C18: with verbose set, event_count is the number of maximal runs of      *)
(* consecutive active blocks in the sequence of all classified blocks, a    *)
(* run that goes on over a frame boundary being one run; this is the count  *)
(* reported when the loop has ended.                                        *)
C18_EventCountIsNumberOfActiveRuns ==
    options.verbose
    => event_count = Cardinality({ i \in 1..Len(blocks) :
                        blocks[i].active /\ (i = 1 \/ ~blocks[i - 1].active) })

\* the run has ended; two events, the second going over the frame boundary
C18_Witness ==
    /\ options.verbose
    /\ pc = "done"
    /\ event_count = 2
    /\ \E i \in 2..Len(blocks) :
         /\ blocks[i - 1].active /\ blocks[i].active
         /\ blocks[i - 1].frame = 1 /\ blocks[i].frame = 2

(* C19: for every block_size, 0 included, and every frame, the block loop   *)
(* ends: it runs at most once per sample of the frame, every iteration      *)
(* taking at least one sample; within it n is never negative and            *)
(* elements_done + n is the frame's sample count.                           *)
C19_BlockLoopTerminates ==
    pc = "blocks"
    => /\ n >= 0
       /\ elements_done + n = FrameSamples(zdata)
       /\ Iterations <= FrameSamples(zdata)

(* C20: a received frame is destroyed before the next one is received, on   *)
(* every path through the loop body, the zero-sample skip included: at most *)
(* one frame is unreleased at any time, and none when the receive is        *)
(* entered or the run has ended.                                            *)
C20_FrameReleasedBeforeNextReceive ==
    /\ unreleased <= 1
    /\ pc \in {"recv", "done"} => unreleased = 0

====
